---- MODULE Spec2Model ----
(***************************************************************************)
(* State-machine model of the Antler Hub scraping pipeline:                *)
(*   scripts/scrape_antler_candidates.py  (AntlerScraper, the full crawl)  *)
(*   scripts/scrape_phone.py              (AntlerPhoneScraper, the rescan) *)
(* The rendered site is a sequence of listing pages; a page is a sequence  *)
(* of rendered units (profile containers and bare name paragraphs), each   *)
(* unit a flat list of DOM elements.  The store is the MongoDB collection  *)
(* `users`, a sequence of documents in natural order.                      *)
(***************************************************************************)
EXTENDS Integers, Sequences, FiniteSets, TLC

(***************************************************************************)
(* Bounds of the model.                                                    *)
(***************************************************************************)
\* listing pages the rendered site has
NumSitePages == 2
\* rendered units (containers, bare name paragraphs) on the whole site
MaxUnits == 2
\* largest page budget (max_pages) a full crawl is started with: one page
\* more than the site has
MaxBudget == NumSitePages + 1
\* selectors of one login selector list that match an element of the form
MaxFound == 2

\* at most this many writes of one sync raise where their exceptions are
\* told apart
MaxRaised == 2

(***************************************************************************)
(* Values.                                                                 *)
(***************************************************************************)
\* a dictionary key that is not present / an element that is not rendered
Absent == "<absent>"
\* the class of a profile container (div.css-iuxpug)
ContainerCls == "css-iuxpug"
\* 'source': 'antler_hub'
SourceTag == "antler_hub"
\* the string-valued keys of a candidate dictionary
StrFields == {"name", "tagline", "location", "status", "about_me", "phone",
              "avatar_url", "source"}
\* the list-valued keys of a candidate dictionary (<<>> stands for no key)
ListFields == {"skills", "antler_cofounder_type", "categories"}

\* str.strip() / get_text(strip=True) on the texts the rendered site uses
Strip(s) ==
  CASE s = "   " -> ""
    [] s = " bob " -> "bob"
    [] OTHER -> s

\* Python truthiness of a dict.get(key) result (None and '' are falsy)
Truthy(v) == v # Absent /\ v # ""

(***************************************************************************)
(* DOM elements.  pid is the index of the parent element in the unit's     *)
(* element list, 0 for a child of the unit's root.                         *)
(***************************************************************************)
El(tag, cls, text, pid) ==
  [tag |-> tag, cls |-> cls, text |-> text, pid |-> pid, src |-> Absent]

Img(cls, src, pid) ==
  [tag |-> "img", cls |-> cls, text |-> "", pid |-> pid, src |-> src]

\* indices of the elements matching tag and class, in document order
FindAllIdx(els, tag, cls) ==
  {i \in 1..Len(els) : els[i].tag = tag /\ els[i].cls = cls}

Min(S) == CHOOSE x \in S : \A y \in S : x <= y

\* the elements of a set of indices, in document order
RECURSIVE InOrder(_, _)
InOrder(els, S) ==
  IF S = {} THEN <<>>
  ELSE <<els[Min(S)]>> \o InOrder(els, S \ {Min(S)})

\* BeautifulSoup find_all(tag, class_=cls)
FindAll(els, tag, cls) == InOrder(els, FindAllIdx(els, tag, cls))

\* BeautifulSoup find(tag, class_=cls): index of the first match, 0 for None
FindIdx(els, tag, cls) ==
  IF FindAllIdx(els, tag, cls) = {} THEN 0 ELSE Min(FindAllIdx(els, tag, cls))

\* the text of the first match, with '' set for an element that is missing
FindTextOrEmpty(els, tag, cls) ==
  IF FindIdx(els, tag, cls) = 0 THEN ""
  ELSE Strip(els[FindIdx(els, tag, cls)].text)

\* get_text(strip=True) of find(tag, class_=cls), Absent when find is None
FindText(els, tag, cls) ==
  IF FindIdx(els, tag, cls) = 0 THEN Absent
  ELSE Strip(els[FindIdx(els, tag, cls)].text)

\* elem.parent.get('class', [])
ParentCls(els, e) == IF e.pid = 0 THEN ContainerCls ELSE els[e.pid].cls

(***************************************************************************)
(* The rendered units the site is built from.  A container carries the     *)
(* elements BeautifulSoup sees (els) and the elements present after the    *)
(* Contact Info control was clicked (revealed).                            *)
(***************************************************************************)
AdaEls ==
  << El("p", "css-5gltw", "ada", 0),
     El("p", "css-1s1jbr2", "builder", 0),
     El("span", "css-1l60zjl", "Berlin", 0),
     El("p", "css-f9cheu", "Looking for co-founder", 0),
     El("p", "css-1b5s80b", "about ada", 0),
     El("p", "css-olbwyb", "Python", 0),
     El("p", "css-olbwyb", "Technology", 0),
     El("p", "css-olbwyb", "Fundraising", 0),
     Img("chakra-avatar__img", "ada.png", 0),
     El("p", "css-10pjdbc", "Technology", 0),
     El("div", "css-i310wq", "Fintech", 0),
     El("p", "css-olbwyb", "Fintech", 11),
     El("button", "chakra-button", "Contact Info", 0),
     El("div", "css-i310wq", "Domain", 0),
     El("p", "css-olbwyb", "Domain", 14),
     El("div", "css-i310wq", "Climate", 0),
     El("p", "css-olbwyb", "Climate", 16) >>

AdaLeanEls ==
  << El("p", "css-5gltw", "ada", 0),
     El("p", "css-1s1jbr2", "operator", 0),
     El("p", "css-viedx2", "In a team", 0),
     El("p", "css-olbwyb", "Sales", 0),
     El("p", "css-olbwyb", "Domain", 0) >>

BobEls ==
  << El("p", "css-5gltw", " bob ", 0),
     El("p", "css-viedx2", "In a team", 0),
     El("div", "css-skills", "Business", 0),
     El("p", "css-olbwyb", "Business", 3),
     Img("chakra-avatar__img", Absent, 0),
     El("p", "css-phone", "+1-555-0199", 0),
     El("span", "css-badge", "Technology", 0),
     El("span", "css-badge", "Domain", 0) >>

NamelessEls ==
  << El("p", "css-1s1jbr2", "no name rendered", 0),
     El("button", "chakra-button", "Contact Info", 0) >>

BlankNameEls ==
  << El("p", "css-5gltw", "   ", 0),
     El("p", "css-1s1jbr2", "blank name", 0) >>

Pool ==
  << [kind |-> "container", els |-> AdaEls,
      revealed |-> Append(AdaEls, El("p", "css-phone", "+1-555-0100", 0))],
     [kind |-> "container", els |-> AdaLeanEls, revealed |-> AdaLeanEls],
     [kind |-> "container", els |-> BobEls, revealed |-> BobEls],
     [kind |-> "container", els |-> NamelessEls, revealed |-> NamelessEls],
     [kind |-> "container", els |-> BlankNameEls, revealed |-> BlankNameEls],
     [kind |-> "bare", els |-> <<El("p", "css-5gltw", "ada", 0)>>,
      revealed |-> <<>>] >>

\* the units of a page, as elements of Pool
Units(page) == [i \in 1..Len(page) |-> Pool[page[i]]]

(***************************************************************************)
(* The store: collection.find_one / update_one of pymongo.                 *)
(***************************************************************************)
\* a candidate dictionary with no key set
EmptyCand ==
  [name |-> Absent, tagline |-> Absent, location |-> Absent,
   status |-> Absent, about_me |-> Absent, skills |-> <<>>,
   phone |-> Absent, avatar_url |-> Absent, antler_cofounder_type |-> <<>>,
   categories |-> <<>>, scraped_at |-> 0, source |-> Absent]

CandFields == DOMAIN EmptyCand

\* 'key' in dictionary
HasKey(d, f) ==
  IF f \in ListFields THEN d[f] # <<>>
  ELSE IF f = "scraped_at" THEN d[f] # 0
  ELSE d[f] # Absent

\* indices of the documents matching {'name': name}
MatchIdx(coll, name) == {i \in 1..Len(coll) : coll[i].name = name}

\* collection.find_one({'name': name}): index of the first match, 0 for None
FindOne(coll, name) ==
  IF MatchIdx(coll, name) = {} THEN 0 ELSE Min(MatchIdx(coll, name))

\* a write that replaces the matched document by the incoming record
SetFieldsReplacing(doc, cand) ==
  [f \in DOMAIN doc |->
     IF f \in CandFields THEN cand[f]
     ELSE IF f = "id" THEN doc[f]
     ELSE Absent]

\* a $set that appends an incoming list to the stored one
SetFieldsAppending(doc, cand) ==
  [f \in DOMAIN doc |->
     IF f \in CandFields /\ HasKey(cand, f)
     THEN IF f \in ListFields /\ HasKey(doc, f) THEN doc[f] \o cand[f]
          ELSE cand[f]
     ELSE doc[f]]

\* the effect of {'$set': cand} on one document
SetFields(doc, cand) ==
  [f \in DOMAIN doc |->
     IF f \in CandFields /\ HasKey(cand, f) THEN cand[f] ELSE doc[f]]

\* the document an upsert inserts: the query's equality field and the $set
NewDoc(id, cand) ==
  [f \in CandFields \cup {"id", "founder_type"} |->
     IF f = "id" THEN id
     ELSE IF f = "founder_type" THEN Absent
     ELSE cand[f]]

\* update_one that inserts even when the filter matches a document
UpsertAlwaysInsert(coll, cand) == Append(coll, NewDoc(Len(coll) + 1, cand))

\* a write that replaces the collection by the one document written
UpsertDroppingOthers(coll, cand) == <<NewDoc(1, cand)>>

\* collection.update_one({'name': cand['name']}, {'$set': cand}, upsert=True)
UpsertByName(coll, cand) ==
  IF FindOne(coll, cand.name) = 0
  THEN Append(coll, NewDoc(Len(coll) + 1, cand))
  ELSE [coll EXCEPT ![FindOne(coll, cand.name)] = SetFields(@, cand)]

(***************************************************************************)
(* ProfileExtractor: AntlerScraper.extract_full_candidate_info.            *)
(***************************************************************************)
\* the literals the skills and categories filters drop
HeaderLiterals == {"Technology", "Technical Software", "Domain", "Business"}
\* the cofounder-type vocabulary
TypeVocab == {"Technology", "Business", "Domain"}
\* the vocabulary in the order sorted() gives
TypeVocabSorted == <<"Business", "Domain", "Technology">>

\* [get_text(strip=True) for e in seq]
Texts(seq) == [i \in 1..Len(seq) |-> Strip(seq[i].text)]

\* a filter that drops nothing
KeepEverything(t) == TRUE

\* skill not in ['Technology', 'Technical Software', 'Domain', 'Business']
NotHeader(t) == t \notin HeaderLiterals

\* candidate['skills'] (<<>> when the key is not set)
ExtractSkills(els) == SelectSeq(Texts(FindAll(els, "p", "css-olbwyb")), NotHeader)

\* Strategy 1: exact vocabulary matches among p.css-10pjdbc
TypesStrategy1(els) ==
  {Strip(els[i].text) : i \in FindAllIdx(els, "p", "css-10pjdbc")} \cap TypeVocab

\* Strategy 2: exact vocabulary matches among all p, span and div elements
\* whose parent does not carry the class css-olbwyb
TypesStrategy2(els) ==
  {Strip(els[i].text) :
     i \in {j \in 1..Len(els) :
              /\ els[j].tag \in {"p", "span", "div"}
              /\ Strip(els[j].text) \in TypeVocab
              /\ ParentCls(els, els[j]) # "css-olbwyb"}}

\* the two strategies mixed into one set
ExtractTypeSetMixed(els) == TypesStrategy1(els) \cup TypesStrategy2(els)

\* antler_types_set
ExtractTypeSet(els) ==
  IF TypesStrategy1(els) # {} THEN TypesStrategy1(els) ELSE TypesStrategy2(els)

\* sorted(list(antler_types_set))
ExtractTypes(els) ==
  LET S == ExtractTypeSet(els)
      InS(t) == t \in S
  IN SelectSeq(TypeVocabSorted, InS)

\* cat_div.find('p', class_='css-olbwyb'): first such p below the div, 0 for None
CatP(els, d) ==
  LET S == {i \in FindAllIdx(els, "p", "css-olbwyb") : els[i].pid = d}
  IN IF S = {} THEN 0 ELSE Min(S)

\* candidate['categories'] (<<>> when the key is not set)
RECURSIVE CatTexts(_, _)
CatTexts(els, divs) ==
  IF divs = {} THEN <<>>
  ELSE LET d == Min(divs)
           rest == CatTexts(els, divs \ {d})
       IN IF CatP(els, d) # 0 /\ NotHeader(Strip(els[CatP(els, d)].text))
          THEN <<Strip(els[CatP(els, d)].text)>> \o rest
          ELSE rest

ExtractCategories(els) == CatTexts(els, FindAllIdx(els, "div", "css-i310wq"))

\* container.find('p', 'css-f9cheu') or container.find('p', 'css-viedx2')
ExtractStatus(els) ==
  IF FindIdx(els, "p", "css-f9cheu") # 0 THEN FindText(els, "p", "css-f9cheu")
  ELSE FindText(els, "p", "css-viedx2")

\* avatar_img.get('src', '') of img.chakra-avatar__img
ExtractAvatar(els) ==
  LET i == FindIdx(els, "img", "chakra-avatar__img")
  IN IF i = 0 THEN Absent
     ELSE IF els[i].src = Absent THEN "" ELSE els[i].src

\* the phone key set to "" without looking at the stored record
ExtractPhoneAlwaysEmpty(coll, name) == ""

\* the phone key of the candidate: "" unless the stored phone is truthy
ExtractPhone(coll, name) ==
  IF FindOne(coll, name) = 0 \/ ~Truthy(coll[FindOne(coll, name)].phone)
  THEN "" ELSE Absent

\* extract_full_candidate_info(container) at clock reading now:
\*   raised - candidate['name'] raised KeyError (no name element)
\*   cand   - the returned dictionary, EmptyCand standing for None
ExtractFullCandidateInfo(els, coll, now) ==
  LET name == FindText(els, "p", "css-5gltw")
      cand == [name |-> name,
               tagline |-> FindText(els, "p", "css-1s1jbr2"),
               location |-> FindText(els, "span", "css-1l60zjl"),
               status |-> ExtractStatus(els),
               about_me |-> FindText(els, "p", "css-1b5s80b"),
               skills |-> ExtractSkills(els),
               phone |-> ExtractPhone(coll, name),
               avatar_url |-> ExtractAvatar(els),
               antler_cofounder_type |-> ExtractTypes(els),
               categories |-> ExtractCategories(els),
               scraped_at |-> now,
               source |-> SourceTag]
  IN IF name = Absent THEN [raised |-> TRUE, cand |-> EmptyCand]
     ELSE IF name = "" THEN [raised |-> FALSE, cand |-> EmptyCand]
     ELSE [raised |-> FALSE, cand |-> cand]

(***************************************************************************)
(* AntlerScraper.scrape_current_page.                                      *)
(***************************************************************************)
\* soup.find_all('div', class_='css-iuxpug'): the containers of the page
IsContainer(u) == u.kind = "container"
ProfileContainers(page) == SelectSeq(Units(page), IsContainer)

\* extract_full_candidate_info of every container, in order
ExtractAll(page, coll, now) ==
  [i \in 1..Len(ProfileContainers(page)) |->
     ExtractFullCandidateInfo(ProfileContainers(page)[i].els, coll, now)]

\* the loop over profile_containers: the truthy-named results, in order
Structured(page, coll, now) ==
  LET Kept(r) == Truthy(r.cand.name)
      kept == SelectSeq(ExtractAll(page, coll, now), Kept)
  IN [i \in 1..Len(kept) |-> kept[i].cand]

\* soup.find_all('p', class_='css-5gltw') over the whole page, in order
RECURSIVE NameElements(_)
NameElements(units) ==
  IF units = <<>> THEN <<>>
  ELSE FindAll(Head(units).els, "p", "css-5gltw") \o NameElements(Tail(units))

\* the name-only fallback records
NameOnly(page, now) ==
  LET names == Texts(NameElements(Units(page)))
  IN [i \in 1..Len(names) |->
        [EmptyCand EXCEPT !.name = names[i], !.scraped_at = now,
                          !.source = SourceTag]]

\* the de-duplication without the test `if name`
RECURSIVE UniqueByNameKeepBlank(_, _)
UniqueByNameKeepBlank(cands, seen) ==
  IF cands = <<>> THEN <<>>
  ELSE IF Head(cands).name \notin seen
       THEN <<Head(cands)>>
            \o UniqueByNameKeepBlank(Tail(cands), seen \cup {Head(cands).name})
       ELSE UniqueByNameKeepBlank(Tail(cands), seen)

\* the de-duplication keeping the last occurrence of a name
RECURSIVE UniqueByNameKeepLast(_, _)
UniqueByNameKeepLast(cands, seen) ==
  IF cands = <<>> THEN <<>>
  ELSE IF /\ Truthy(Head(cands).name)
          /\ \A i \in 1..Len(Tail(cands)) : Tail(cands)[i].name # Head(cands).name
       THEN <<Head(cands)>> \o UniqueByNameKeepLast(Tail(cands), seen)
       ELSE UniqueByNameKeepLast(Tail(cands), seen)

\* 'Remove duplicates based on name': first occurrence of each truthy name
RECURSIVE UniqueByName(_, _)
UniqueByName(cands, seen) ==
  IF cands = <<>> THEN <<>>
  ELSE IF Truthy(Head(cands).name) /\ Head(cands).name \notin seen
       THEN <<Head(cands)>>
            \o UniqueByName(Tail(cands), seen \cup {Head(cands).name})
       ELSE UniqueByName(Tail(cands), seen)

\* scrape_current_page() on a page: raised - a KeyError left the function;
\* cands - the returned unique_candidates
ScrapeCurrentPage(page, coll, now) ==
  LET res == ExtractAll(page, coll, now)
      candidates == IF Structured(page, coll, now) # <<>>
                    THEN Structured(page, coll, now)
                    ELSE NameOnly(page, now)
  IN IF \E i \in 1..Len(res) : res[i].raised
     THEN [raised |-> TRUE, cands |-> <<>>]
     ELSE [raised |-> FALSE, cands |-> UniqueByName(candidates, {})]

(***************************************************************************)
(* PersistenceSync: AntlerScraper.save_candidates.                         *)
(***************************************************************************)
\* the loop given up at the first write that raises
RECURSIVE SaveFromAbort(_, _, _, _)
SaveFromAbort(coll, batch, i, fails) ==
  IF i > Len(batch) \/ i \in fails THEN coll
  ELSE SaveFromAbort(UpsertByName(coll, batch[i]), batch, i + 1, fails)

\* the loop of save_candidates from position i on; the writes of the
\* positions in fails raise and are skipped
RECURSIVE SaveFrom(_, _, _, _)
SaveFrom(coll, batch, i, fails) ==
  IF i > Len(batch) THEN coll
  ELSE SaveFrom(IF i \in fails THEN coll ELSE UpsertByName(coll, batch[i]),
                batch, i + 1, fails)

SaveCandidates(coll, batch, fails) == SaveFrom(coll, batch, 1, fails)

\* a write that is counted as an insert whatever the store held
UpsertedAlways(coll, cand) == TRUE

\* result.upserted_id: the filter matched no document
Upserted(coll, cand) == FindOne(coll, cand.name) = 0

\* result.modified_count > 0: the $set changed the matched document
Modified(coll, cand) ==
  /\ FindOne(coll, cand.name) # 0
  /\ SetFields(coll[FindOne(coll, cand.name)], cand)
       # coll[FindOne(coll, cand.name)]

\* inserted_count and updated_count after the loop of save_candidates from
\* position i on: the writes at the positions in fails raise, those in dups
\* among them raise DuplicateKeyError
RECURSIVE SaveCountsFrom(_, _, _, _, _, _)
SaveCountsFrom(coll, batch, i, fails, dups, counts) ==
  IF i > Len(batch) THEN counts
  ELSE IF i \in dups
  THEN SaveCountsFrom(coll, batch, i + 1, fails, dups,
                      [counts EXCEPT !.updated = @ + 1])
  ELSE IF i \in fails
  THEN SaveCountsFrom(coll, batch, i + 1, fails, dups, counts)
  ELSE SaveCountsFrom(UpsertByName(coll, batch[i]), batch, i + 1, fails, dups,
         IF Upserted(coll, batch[i])
         THEN [counts EXCEPT !.inserted = @ + 1]
         ELSE IF Modified(coll, batch[i])
         THEN [counts EXCEPT !.updated = @ + 1]
         ELSE counts)

\* inserted_count = 0; updated_count = 0
NoCounts == [inserted |-> 0, updated |-> 0]

SaveCounts(coll, batch, fails, dups) ==
  SaveCountsFrom(coll, batch, 1, fails, dups, NoCounts)

(***************************************************************************)
(* PaginationController.  The pagination controls rendered on listing page *)
(* k: num is the text of the div inside the button (0 for none), txt the   *)
(* number in the button's own text (0 for none), next whether the class or *)
(* aria-label contains pagination/next, target the page a click opens.     *)
(***************************************************************************)
PagerKinds == {"numbered", "text", "next", "none"}

Button(num, txt, next, actionable, target) ==
  [num |-> num, txt |-> txt, next |-> next, actionable |-> actionable,
   target |-> target]

Buttons(pager, k) ==
  CASE pager = "numbered" ->
         [j \in 1..NumSitePages |-> Button(j, 0, FALSE, TRUE, j)]
    [] pager = "text" ->
         [j \in 1..NumSitePages |-> Button(0, j, FALSE, j # k, j)]
    [] pager = "next" ->
         <<Button(0, 0, TRUE, k < NumSitePages,
                  IF k < NumSitePages THEN k + 1 ELSE k)>>
    [] OTHER -> <<>>

\* contains(text(), 'n') for the one- and two-digit numbers of the model
ContainsNumber(txt, n) == txt # 0 /\ (txt = n \/ txt % 10 = n \/ txt \div 10 = n)

\* Strategy 1: find_element //button[.//div[text()='n']], clicked if actionable
ByDivText(btns, n) ==
  LET S == {i \in 1..Len(btns) : btns[i].num = n}
  IN IF S # {} /\ btns[Min(S)].actionable THEN Min(S) ELSE 0

\* Strategy 2: the first actionable button whose text contains n
ByText(btns, n) ==
  LET S == {i \in 1..Len(btns) :
              ContainsNumber(btns[i].txt, n) /\ btns[i].actionable}
  IN IF S = {} THEN 0 ELSE Min(S)

\* Strategy 3: the first actionable pagination/next button
ByNextMarker(btns) ==
  LET S == {i \in 1..Len(btns) : btns[i].next /\ btns[i].actionable}
  IN IF S = {} THEN 0 ELSE Min(S)

\* the page number navigate_to_next_page looks for
NextPageTarget == 2

\* the result of clicking button i of btns (0: nothing was clicked)
Clicked(btns, i, k) ==
  IF i = 0 THEN [ok |-> FALSE, page |-> k]
  ELSE [ok |-> TRUE, page |-> btns[i].target]

\* AntlerScraper.navigate_to_next_page() with listing page k shown
NavigateToNextPage(pager, k) ==
  LET btns == Buttons(pager, k)
  IN IF ByDivText(btns, NextPageTarget) # 0
     THEN Clicked(btns, ByDivText(btns, NextPageTarget), k)
     ELSE IF ByText(btns, NextPageTarget) # 0
     THEN Clicked(btns, ByText(btns, NextPageTarget), k)
     ELSE Clicked(btns, ByNextMarker(btns), k)

\* AntlerPhoneScraper.navigate_to_page(n) with listing page k shown
NavigateToPage(pager, k, n) ==
  LET btns == Buttons(pager, k)
  IN IF n = 1 THEN [ok |-> TRUE, page |-> k]
     ELSE IF ByDivText(btns, n) # 0 THEN Clicked(btns, ByDivText(btns, n), k)
     ELSE Clicked(btns, ByText(btns, n), k)

(***************************************************************************)
(* TargetedRescanPass: AntlerPhoneScraper.scrape_current_page_phones.      *)
(***************************************************************************)
TestAccount == "Chris (Test) Klam"

\* the texts phone_pattern matches with at least 7 digits
PhoneTexts == {"+1-555-0100", "+1-555-0199"}

\* extract_phone_from_container: the first phone-like text, Absent for None
ExtractPhoneFromContainer(els) ==
  LET S == {i \in 1..Len(els) : els[i].text \in PhoneTexts}
  IN IF S = {} THEN Absent ELSE els[Min(S)].text

\* .//button[contains(., 'Contact Info')] is found
HasContactButton(els) ==
  \E i \in 1..Len(els) : els[i].tag = "button" /\ els[i].text = "Contact Info"

\* name_elem.text.strip(), with Michiel(you) normalised
RescanName(els) ==
  LET t == FindText(els, "p", "css-5gltw")
  IN IF t = "Michiel(you)" THEN "Michiel Voortman" ELSE t

\* the test that never skips a container
HasStoredPhoneNever(coll, name) == FALSE

\* existing_candidate and its phone is non-blank
HasStoredPhone(coll, name) ==
  /\ FindOne(coll, name) # 0
  /\ Truthy(coll[FindOne(coll, name)].phone)
  /\ Strip(coll[FindOne(coll, name)].phone) # ""

\* the container passes the name lookup, the test-account test and the
\* stored-phone test, so the Contact Info click and the phone extraction
\* are attempted on it
ReachesReveal(u, coll) ==
  /\ FindIdx(u.els, "p", "css-5gltw") # 0
  /\ RescanName(u.els) # TestAccount
  /\ ~HasStoredPhone(coll, RescanName(u.els))

\* the names of the containers of a page on which the reveal is attempted
AttemptedNames(page, coll) ==
  {RescanName(ProfileContainers(page)[i].els) :
     i \in {j \in 1..Len(ProfileContainers(page)) :
              ReachesReveal(ProfileContainers(page)[j], coll)}}

\* the phone the container yields: after the click when there is a Contact
\* Info button, directly otherwise; '' when none
ContainerPhone(u) ==
  LET ph == IF HasContactButton(u.els)
            THEN ExtractPhoneFromContainer(u.revealed)
            ELSE ExtractPhoneFromContainer(u.els)
  IN IF Truthy(ph) THEN ph ELSE ""

\* the body of the loop over containers: the results a container adds
ContainerResult(u, coll) ==
  IF FindIdx(u.els, "p", "css-5gltw") = 0 THEN <<>>
  ELSE IF RescanName(u.els) = TestAccount THEN <<>>
  ELSE IF HasStoredPhone(coll, RescanName(u.els)) THEN <<>>
  ELSE <<[name |-> RescanName(u.els), phone |-> ContainerPhone(u)]>>

RECURSIVE PhoneResults(_, _)
PhoneResults(units, coll) ==
  IF units = <<>> THEN <<>>
  ELSE ContainerResult(Head(units), coll) \o PhoneResults(Tail(units), coll)

\* scrape_current_page_phones() on a page
ScrapeCurrentPagePhones(page, coll) ==
  PhoneResults(ProfileContainers(page), coll)

\* the page budget of scrape_phones
RescanMaxPages == 3

\* the write of one result made whether or not save_to_db is set
UpdateCandidatePhoneAlways(coll, saveToDb, result) ==
  IF FindOne(coll, result.name) # 0
  THEN [coll EXCEPT ![FindOne(coll, result.name)].phone = result.phone]
  ELSE coll

\* a write of one result that inserts a record when the name has none
UpdateCandidatePhoneUpsert(coll, saveToDb, result) ==
  IF ~saveToDb THEN coll
  ELSE IF FindOne(coll, result.name) # 0
  THEN [coll EXCEPT ![FindOne(coll, result.name)].phone = result.phone]
  ELSE Append(coll, NewDoc(Len(coll) + 1,
                [EmptyCand EXCEPT !.name = result.name,
                                  !.phone = result.phone]))

\* the write of one result in scrape_phones: find_one by name, then
\* update_candidate_phone(candidate['_id'], phone)
UpdateCandidatePhone(coll, saveToDb, result) ==
  IF saveToDb /\ FindOne(coll, result.name) # 0
  THEN [coll EXCEPT ![FindOne(coll, result.name)].phone = result.phone]
  ELSE coll

(***************************************************************************)
(* State.                                                                  *)
(***************************************************************************)
VARIABLES
  site,            \* the rendered listing pages, each a sequence of Pool indices
  pager,           \* the pagination controls the site renders
  store,           \* the collection `users`
  mode,            \* "crawl" (AntlerScraper) or "rescan" (AntlerPhoneScraper)
  max_pages,       \* the page budget of the run
  save_to_db,      \* AntlerPhoneScraper.save_to_db
  pc,              \* position of the run
  driver,          \* self.driver: "none", "open", "closed"
  db_client,       \* self.db_client: "none", "open", "closed"
  cur,             \* the listing page the browser shows (0 before navigation)
  page_num,        \* the loop variable of the page loop
  all_candidates,  \* scrape(): the accumulated records
  all_results,     \* scrape_phones(): the accumulated results
  wi,              \* scrape_phones(): position of the final write loop
  clock,           \* the reading datetime.now() last gave
  run,             \* number of runs started
  outcome,         \* how the run ended: running, ok, KeyError, error, interrupt
  exit_status,     \* the exit status of the process, -1 while it runs
  url,             \* the kind of URL the browser shows
  session,         \* whether the browsing session is authenticated
  login,           \* login_if_needed(): what it read, found and did so far
  waiting,         \* wait_for_candidates_to_load(): its last call
  hist             \* observations of the runs, used to state properties

vars == <<site, pager, store, mode, max_pages, save_to_db, pc, driver,
          db_client, cur, page_num, all_candidates, all_results, wi, clock,
          run, outcome, exit_status, url, session, login, waiting, hist>>

\* sequences over S of length at most n
SeqsUpTo(S, n) == UNION {[1..k -> S] : k \in 0..n}

\* a listing page the browser has not shown yet
Unrendered == <<0>>

\* a pagination the browser has not shown yet
Unknown == "unknown"

\* the units the pages of s hold
RECURSIVE TotalLen(_)
TotalLen(s) ==
  IF s = <<>> THEN 0
  ELSE (IF Head(s) = Unrendered THEN 0 ELSE Len(Head(s))) + TotalLen(Tail(s))

\* the sites the browser may find when it shows listing page k: a page is
\* rendered when it is first shown and stays as rendered; the site holds at
\* most MaxUnits units
Render(s, k) ==
  IF s[k] # Unrendered THEN {s}
  ELSE {[s EXCEPT ![k] = p] :
          p \in SeqsUpTo(1..Len(Pool), MaxUnits - TotalLen(s))}

\* the pagination the browser may find, settled when it is first used
RenderPager(pg) == IF pg = Unknown THEN PagerKinds ELSE {pg}

\* a document an earlier crawl and the classifier left in the store
StoredDoc(id, name, phone) ==
  [NewDoc(id, [EmptyCand EXCEPT !.name = name, !.phone = phone,
                                !.tagline = "old tagline",
                                !.skills = <<"Old skill">>,
                                !.scraped_at = 1, !.source = SourceTag])
     EXCEPT !.founder_type = "technical"]

\* re-number the documents of a sequence by position
Renumber(docs) == [i \in 1..Len(docs) |-> [docs[i] EXCEPT !.id = i]]

\* the stores a run may find: the unique index on name holds
InitStores ==
  {Renumber(<<StoredDoc(1, "carol", "+1-555-0199")>> \o b) :
     b \in {<<>>} \cup {<<StoredDoc(1, "ada", ph)>> :
                          ph \in {Absent, "+1-555-0177"}}}

\* what hist holds when a run starts
NoHist ==
  [visited |-> <<>>,      \* the listing page each extraction ran on
   saved |-> <<>>,        \* the batch passed to save_candidates
   save_calls |-> 0,      \* number of calls of save_candidates
   nav_failed_at |-> 0,   \* page_num at which pagination reported failure
   waits |-> 0,           \* calls of wait_for_candidates_to_load
   navs |-> 0,            \* calls of the pagination controller
   attempted |-> {},      \* names the rescan attempted the reveal on
   fails |-> {},          \* positions of the batch whose write raised
   dups |-> {},           \* those that raised DuplicateKeyError
   counts |-> [inserted |-> 0, updated |-> 0],  \* what save_candidates counted
   external |-> <<>>,     \* the phone writes another process made meanwhile
   last_result |-> <<>>,  \* what scrape_current_page returned last
   last_page |-> 0,       \* the listing page it ran on
   store0 |-> <<>>,       \* the store when the run started
   prev_outcome |-> "none",
   prev_mode |-> "none"]

\* login_if_needed() before its first statement
NoLogin ==
  [first_url |-> "blank",  \* current_url after the first driver.get
   creds |-> FALSE,        \* email and password were read or prompted for
   loop |-> "none",        \* the selector loop that ran last
   found |-> <<>>,         \* what each selector of that loop gave
   field |-> 0,            \* the selector whose element that loop left
   populated |-> {},       \* the fields send_keys filled
   submitted |-> "none",   \* "click": login_button.click(),
                           \* "submit": password_field.submit()
   recheck |-> "none"]     \* "failed": the test after the submission saw a
                           \* login page, "passed": it did not

\* wait_for_candidates_to_load() before its first check
NoWait ==
  [total_waited |-> 0,  \* total_waited
   polls |-> 0,         \* iterations of the polling loop begun
   seen |-> FALSE]      \* the last check found containers or names

Init ==
  /\ site = [k \in 1..NumSitePages |-> Unrendered]
  /\ pager = Unknown
  /\ store \in InitStores
  /\ mode = "none"
  /\ max_pages = 0
  /\ save_to_db = FALSE
  /\ pc = "idle"
  /\ driver = "none"
  /\ db_client = "none"
  /\ cur = 0
  /\ page_num = 0
  /\ all_candidates = <<>>
  /\ all_results = <<>>
  /\ wi = 0
  /\ clock = 1
  /\ run = 0
  /\ outcome = "none"
  /\ exit_status = -1
  /\ url = "blank"
  /\ session = FALSE
  /\ login = NoLogin
  /\ waiting = NoWait
  /\ hist = NoHist

(***************************************************************************)
(* The runs: AntlerScraper.scrape and AntlerPhoneScraper.scrape_phones.    *)
(***************************************************************************)
\* a fresh scraper object starts a run on the site and the store
BeginRun(m, budget, save) ==
  /\ mode' = m
  /\ max_pages' = budget
  /\ save_to_db' = save
  /\ pc' = "driver"
  /\ driver' = "none"
  /\ db_client' = "none"
  /\ cur' = 0
  /\ page_num' = 0
  /\ all_candidates' = <<>>
  /\ all_results' = <<>>
  /\ wi' = 0
  /\ run' = run + 1
  /\ outcome' = "running"
  /\ exit_status' = -1
  /\ url' = "blank"
  /\ session' = FALSE
  /\ login' = NoLogin
  /\ waiting' = NoWait
  /\ hist' = [NoHist EXCEPT !.store0 = store, !.prev_outcome = outcome,
                            !.prev_mode = mode]
  /\ UNCHANGED <<site, pager, store, clock>>

\* scrape(max_pages)
Scrape ==
  /\ pc = "idle"
  /\ \E budget \in 1..MaxBudget : BeginRun("crawl", budget, FALSE)

\* scrape_phones() of AntlerPhoneScraper(save_to_db)
ScrapePhones ==
  /\ pc = "idle"
  /\ \E save \in BOOLEAN : BeginRun("rescan", RescanMaxPages, save)

\* scrape(max_pages) once more, after a completed full crawl that reached
\* the listing of the same site
ScrapeAgain ==
  /\ pc = "done"
  /\ mode = "crawl"
  /\ outcome = "ok"
  /\ url = "listing"
  /\ run = 1
  /\ BeginRun("crawl", max_pages, FALSE)

\* cleanup(): quit the browser and close the store connection, if set
CleanupDriverOnly(d, c) ==
  /\ driver' = IF d = "open" THEN "closed" ELSE d
  /\ db_client' = c

\* a cleanup that leaves the browser running
CleanupStoreOnly(d, c) ==
  /\ driver' = d
  /\ db_client' = IF c = "open" THEN "closed" ELSE c

Cleanup(d, c) ==
  /\ driver' = IF d = "open" THEN "closed" ELSE d
  /\ db_client' = IF c = "open" THEN "closed" ELSE c

\* main(): the exit status of the process after the run ended as kind:
\* KeyboardInterrupt is caught and main returns, any other exception
\* gives sys.exit(1)
ExitStatus(kind) == IF kind \in {"error", "KeyError"} THEN 1 ELSE 0

\* the run leaves the try block, by an exception or at its end, with
\* self.driver = d and self.db_client = c; finally: self.cleanup()
Leave(kind, d, c) ==
  /\ outcome' = kind
  /\ pc' = "done"
  /\ Cleanup(d, c)
  /\ exit_status' = ExitStatus(kind)

\* an exception ends the run: the local variables of the run are dropped,
\* the browser that is quit holds no rendered page, and of the
\* observations of the run only the store it started with is kept
Unwind ==
  /\ page_num' = 0
  /\ all_candidates' = <<>>
  /\ all_results' = <<>>
  /\ wi' = 0
  /\ cur' = 0
  /\ url' = "blank"
  /\ session' = FALSE
  /\ login' = NoLogin
  /\ waiting' = NoWait
  /\ site' = [k \in 1..NumSitePages |-> Unrendered]
  /\ pager' = Unknown
  /\ hist' = [NoHist EXCEPT !.store0 = hist.store0,
                            !.prev_outcome = hist.prev_outcome,
                            !.prev_mode = hist.prev_mode]

\* setup_driver()
SetupDriver ==
  /\ pc = "driver"
  /\ \/ driver' = "open" /\ pc' = "mongo" /\ UNCHANGED <<outcome, exit_status, db_client>>
     \/ Leave("error", "none", db_client)
  /\ UNCHANGED <<site, pager, store, mode, max_pages, save_to_db, cur,
                 page_num, all_candidates, all_results, wi, clock, run, url, session, hist>>
  /\ UNCHANGED login
  /\ UNCHANGED waiting

\* setup_mongodb(): MongoClient(...) may raise, and so may server_info()
\* after self.db_client was assigned
SetupMongodb ==
  /\ pc = "mongo"
  /\ \/ db_client' = "open" /\ pc' = "login" /\ UNCHANGED <<outcome, exit_status, driver>>
     \/ Leave("error", driver, "open")
     \/ Leave("error", driver, "none")
  /\ UNCHANGED <<site, pager, store, mode, max_pages, save_to_db, cur,
                 page_num, all_candidates, all_results, wi, clock, run, url, session, hist>>
  /\ UNCHANGED login
  /\ UNCHANGED waiting

\* the kinds of URL that indicate a login wall, named by the token they hold
WallUrls == {"login", "signin", "auth"}

\* a test that takes every URL for a login wall
IsLoginWallAlways(u) == TRUE

\* "login" in url or "signin" in url or "auth" in url
IsLoginWall(u) == u \in {"login", "signin", "auth"}

\* "/cohort/founder" not in url and "login" not in url
OffFoundersPage(u) == u # "listing" /\ u # "login"

\* driver.get(founders_url): the URL the site answers with
Get(sess) == IF sess THEN {"listing", "home"} ELSE WallUrls

\* the page source the browser holds: the listing page cur when the URL is
\* the founders page, no candidate markup otherwise
ShownPage == IF url = "listing" THEN site[cur] ELSE <<>>

\* the pagination the browser shows
ShownPager(pg) == IF url = "listing" THEN pg ELSE "none"

\* the selector lists of the login form: email_selectors,
\* password_selectors, login_button_selectors
NumEmailSelectors == 5
NumPasswordSelectors == 4
NumButtonSelectors == 6

\* what the selectors of a list of n give on the rendered form, in order:
\* "none" - find_element raises; "no" - an element that fails the test of
\* the loop (is_displayed(), for a button is_displayed() and is_enabled());
\* "yes" - an element that passes it
FoundLists(n) ==
  {l \in [1..n -> {"none", "no", "yes"}] :
     Cardinality({i \in 1..n : l[i] # "none"}) <= MaxFound}

\* for selector in selectors: try: field = find_element(selector); if
\* test(field): break; except: continue -- the selector whose element the
\* variable holds after the loop from position i on, 0 for None
RECURSIVE SelectorLoop(_, _, _)
SelectorLoop(found, i, field) ==
  IF i > Len(found) THEN field
  ELSE IF found[i] = "none" THEN SelectorLoop(found, i + 1, field)
  ELSE IF found[i] = "yes" THEN i
  ELSE SelectorLoop(found, i + 1, i)

\* login_if_needed(): driver.get(founders_url) and the login-wall test; on
\* a wall the credentials are taken from .env or prompted for; the else
\* branch (already logged in) of the crawl navigates once more when the URL
\* is not the founders page
LoginIfNeeded ==
  /\ pc = "login"
  /\ \E s \in BOOLEAN : \E u \in Get(s) :
       /\ session' = s
       /\ IF IsLoginWall(u)
          THEN /\ url' = u
               /\ pc' = "login_form"
               /\ login' = [NoLogin EXCEPT !.first_url = u, !.creds = TRUE]
          ELSE /\ pc' = "login_verify"
               /\ login' = [NoLogin EXCEPT !.first_url = u]
               /\ IF mode = "crawl" /\ u # "listing"
                  THEN url' \in Get(s)
                  ELSE url' = u
  /\ UNCHANGED <<site, pager, store, mode, max_pages, save_to_db, driver,
                 db_client, cur, page_num, all_candidates, all_results, wi,
                 clock, run, outcome, exit_status, hist>>
  /\ UNCHANGED waiting

\* one of the two field loops of login_if_needed() and what follows it: the
\* field is None ("Could not find ... field" is raised), or clear() and
\* send_keys() are called on the element the loop left; on an element that
\* is not displayed they raise or go through, as the driver decides.  An
\* exception enters the except branch.  lists: what the form may give.
FillField(name, lists, nextpc) ==
  \E l \in lists :
    LET f == SelectorLoop(l, 1, 0)
        seen == [login EXCEPT !.loop = name, !.found = l, !.field = f]
        filled == [seen EXCEPT !.populated = @ \cup {name}]
    IN \/ /\ f = 0
          /\ login' = seen
          /\ pc' = "login_manual"
       \/ /\ f # 0
          /\ login' = filled
          /\ pc' = nextpc
       \/ /\ f # 0 /\ l[f] = "no"
          /\ login' = seen
          /\ pc' = "login_manual"

\* login_if_needed(): the email field
FindEmailField ==
  /\ pc = "login_form"
  /\ FillField("email", FoundLists(NumEmailSelectors), "login_password")
  /\ UNCHANGED <<site, pager, store, mode, max_pages, save_to_db, driver,
                 db_client, cur, page_num, all_candidates, all_results, wi,
                 clock, run, url, session, outcome, exit_status, hist>>
  /\ UNCHANGED waiting

\* login_if_needed(): the password field
FindPasswordField ==
  /\ pc = "login_password"
  /\ FillField("password", FoundLists(NumPasswordSelectors), "login_button")
  /\ UNCHANGED <<site, pager, store, mode, max_pages, save_to_db, driver,
                 db_client, cur, page_num, all_candidates, all_results, wi,
                 clock, run, url, session, outcome, exit_status, hist>>
  /\ UNCHANGED waiting

\* the site's answer to a submitted form, after the settle interval
Answer ==
  \E accepted \in BOOLEAN :
    /\ session' = accepted
    /\ url' \in (IF accepted THEN {"listing", "home"} ELSE {url})

\* login_if_needed(): the login button loop, then login_button.click() if
\* the variable holds an element, password_field.submit() otherwise, then
\* the settle interval.  The click of a button that is not displayed or not
\* enabled raises or goes through without submitting the form, as the
\* driver decides.
SubmitWith(lists) ==
  /\ pc = "login_button"
  /\ \E l \in lists :
       LET b == SelectorLoop(l, 1, 0)
           seen == [login EXCEPT !.loop = "button", !.found = l, !.field = b]
       IN \/ /\ b = 0
             /\ login' = [seen EXCEPT !.submitted = "submit"]
             /\ Answer
             /\ pc' = "login_recheck"
          \/ /\ b # 0 /\ l[b] = "yes"
             /\ login' = [seen EXCEPT !.submitted = "click"]
             /\ Answer
             /\ pc' = "login_recheck"
          \/ /\ b # 0 /\ l[b] = "no"
             /\ \/ /\ login' = [seen EXCEPT !.submitted = "click"]
                   /\ pc' = "login_recheck"
                \/ /\ login' = seen
                   /\ pc' = "login_manual"
             /\ UNCHANGED <<url, session>>
  /\ UNCHANGED <<site, pager, store, mode, max_pages, save_to_db, driver,
                 db_client, cur, page_num, all_candidates, all_results, wi,
                 clock, run, outcome, exit_status, hist>>
  /\ UNCHANGED waiting

SubmitCredentials == SubmitWith(FoundLists(NumButtonSelectors))

\* the crawl's test after the submission: "login" in current_url.lower()
\* or "signin" in current_url.lower()
StillOnLoginPage(u) == u \in {"login", "signin"}

\* login_if_needed() after the settle interval.  The crawl tests the URL
\* (only to print), navigates to the founders page and, off the founders
\* page and with no "login" in the URL, tries the Cohort and Founders links
\* or navigates again; the rescan navigates to the founders page.
RecheckAfterSubmit ==
  /\ pc = "login_recheck"
  /\ \E u \in Get(session) :
       IF mode = "crawl" /\ OffFoundersPage(u)
       THEN url' \in Get(session)
       ELSE url' = u
  /\ pc' = "login_verify"
  /\ UNCHANGED <<site, pager, store, mode, max_pages, save_to_db, driver,
                 db_client, cur, page_num, all_candidates, all_results, wi,
                 clock, run, session, outcome, exit_status, hist>>
  /\ login' = [login EXCEPT !.recheck =
                  IF mode # "crawl" THEN "none"
                  ELSE IF StillOnLoginPage(url) THEN "failed" ELSE "passed"]
  /\ UNCHANGED waiting

\* login_if_needed(), except branch: input("Press Enter after you've logged
\* in manually...") returns, then driver.get(founders_url)
ManualCheckpoint ==
  /\ pc = "login_manual"
  /\ session' \in {session, TRUE}
  /\ url' \in Get(session')
  /\ pc' = "login_verify"
  /\ UNCHANGED <<site, pager, store, mode, max_pages, save_to_db, driver,
                 db_client, cur, page_num, all_candidates, all_results, wi,
                 clock, run, outcome, exit_status, hist>>
  /\ UNCHANGED login
  /\ UNCHANGED waiting

\* login_if_needed(): the final verification prints and returns True, the
\* locals of the function are gone; the run enters the page loop with the
\* browser on its first page
FinalVerification ==
  /\ pc = "login_verify"
  /\ login' = NoLogin
  /\ cur' = 1
  /\ site' \in (IF url = "listing" THEN Render(site, 1) ELSE {site})
  /\ page_num' = 1
  /\ pc' = "wait"
  /\ UNCHANGED <<pager, store, mode, max_pages, save_to_db, driver,
                 db_client, all_candidates, all_results, wi, clock, run, url,
                 session, outcome, exit_status, hist>>
  /\ UNCHANGED waiting

\* login_if_needed() from its first statement to its return, as one step:
\* whatever the form gave, the browser ends on a URL the site answers the
\* founders URL with, for a session that is authenticated or is not
LoginWhole ==
  /\ pc = "login"
  /\ \E s \in BOOLEAN :
       /\ session' = s
       /\ url' \in Get(s)
       /\ site' \in (IF url' = "listing" THEN Render(site, 1) ELSE {site})
  /\ cur' = 1
  /\ page_num' = 1
  /\ pc' = "wait"
  /\ UNCHANGED <<pager, store, mode, max_pages, save_to_db, driver,
                 db_client, all_candidates, all_results, wi, clock, run,
                 login, waiting, outcome, exit_status, hist>>

\* max_wait_time and wait_interval of wait_for_candidates_to_load, seconds
MaxWaitTime == 15
WaitInterval == 3

\* a loop condition that never ends the polling
PollAgainForever(t) == TRUE

\* while total_waited < max_wait_time
PollAgain(t) == t < MaxWaitTime

\* what a check (find_elements of div.css-iuxpug, then of p.css-5gltw) may
\* give: the markers of the page once they have loaded, nothing, or an
\* exception, which is swallowed
Observations(page) ==
  IF page = <<>> THEN {"nothing", "error"}
  ELSE {"markers", "nothing", "error"}

\* wait_for_candidates_to_load(): the settle sleep and the immediate check,
\* which returns True on markers and enters the polling loop otherwise
WaitForCandidatesToLoad ==
  /\ pc = "wait"
  /\ \E obs \in Observations(ShownPage) :
       IF obs = "markers"
       THEN /\ waiting' = [NoWait EXCEPT !.seen = TRUE]
            /\ pc' = "scrape"
       ELSE /\ waiting' = NoWait
            /\ pc' = IF PollAgain(0) THEN "poll" ELSE "scrape"
  /\ UNCHANGED <<site, pager, store, mode, max_pages, save_to_db, driver,
                 db_client, cur, page_num, all_candidates, all_results, wi,
                 clock, run, url, session, login, outcome, exit_status>>
  /\ hist' = [hist EXCEPT !.waits = @ + 1]

\* wait_for_candidates_to_load(): one iteration of the polling loop: the
\* scroll nudge and the check, which returns True on markers; otherwise the
\* sleep and total_waited += wait_interval, and the return of True once the
\* loop condition fails
PollForCandidates ==
  /\ pc = "poll"
  /\ \E obs \in Observations(ShownPage) :
       IF obs = "markers"
       THEN /\ waiting' = [waiting EXCEPT !.polls = @ + 1, !.seen = TRUE]
            /\ pc' = "scrape"
       ELSE /\ waiting' = [waiting EXCEPT !.polls = @ + 1,
                                          !.total_waited = @ + WaitInterval]
            /\ pc' = IF PollAgain(waiting.total_waited + WaitInterval)
                     THEN "poll" ELSE "scrape"
  /\ UNCHANGED <<site, pager, store, mode, max_pages, save_to_db, driver,
                 db_client, cur, page_num, all_candidates, all_results, wi,
                 clock, run, url, session, login, outcome, exit_status, hist>>

\* wait_for_candidates_to_load() from its first statement to its return, as
\* one step: it returns True in every case
WaitWhole ==
  /\ pc = "wait"
  /\ pc' = "scrape"
  /\ UNCHANGED <<site, pager, store, mode, max_pages, save_to_db, driver,
                 db_client, cur, page_num, all_candidates, all_results, wi,
                 clock, run, url, session, login, waiting, outcome,
                 exit_status>>
  /\ hist' = [hist EXCEPT !.waits = @ + 1]

\* a page loop that asks for the next page after every page
MorePagesAlways(n, budget) == TRUE

\* if page_num < max_pages
MorePages(n, budget) == n < budget

\* a page loop that syncs the records of each page as soon as it is extracted
ScrapePageSaving ==
  /\ pc = "scrape"
  /\ mode = "crawl"
  /\ LET res == ScrapeCurrentPage(ShownPage, store, clock + 1)
     IN IF res.raised
        THEN /\ Leave("KeyError", driver, db_client)
             /\ Unwind
        ELSE /\ all_candidates' = all_candidates \o res.cands
             /\ hist' = [hist EXCEPT !.visited = Append(@, cur),
                                     !.last_result = res.cands,
                                     !.last_page =
                                        IF url = "listing" THEN cur ELSE 0]
             /\ pc' = IF MorePages(page_num, max_pages)
                      THEN "navigate" ELSE "save"
             /\ UNCHANGED <<outcome, exit_status, page_num, all_results, wi,
                            driver, db_client, cur, url, session, login,
                            site, pager>>
             /\ waiting' = NoWait
  /\ clock' = clock + 1
  /\ store' = SaveCandidates(store,
                 ScrapeCurrentPage(ShownPage, store, clock + 1).cands, {})
  /\ UNCHANGED <<mode, max_pages, save_to_db, run>>

\* scrape(): candidates = scrape_current_page(); all_candidates.extend(...)
ScrapePage ==
  /\ pc = "scrape"
  /\ mode = "crawl"
  /\ LET res == ScrapeCurrentPage(ShownPage, store, clock + 1)
     IN IF res.raised
        THEN /\ Leave("KeyError", driver, db_client)
             /\ Unwind
        ELSE /\ all_candidates' = all_candidates \o res.cands
             /\ hist' = [hist EXCEPT !.visited = Append(@, cur),
                                     !.last_result = res.cands,
                                     !.last_page =
                                        IF url = "listing" THEN cur ELSE 0]
             /\ pc' = IF MorePages(page_num, max_pages)
                      THEN "navigate" ELSE "save"
             /\ UNCHANGED <<outcome, exit_status, page_num, all_results, wi,
                            driver, db_client, cur, url, session, login,
                            site, pager>>
             /\ waiting' = NoWait
  /\ clock' = clock + 1
  /\ UNCHANGED <<store, mode, max_pages, save_to_db, run>>

\* the page loop going on after navigate_to_next_page() returned False
NavigateNextNoBreak ==
  /\ pc = "navigate"
  /\ mode = "crawl"
  /\ pager' \in (IF url = "listing" THEN RenderPager(pager) ELSE {pager})
  /\ LET nav == NavigateToNextPage(ShownPager(pager'), cur)
     IN /\ cur' = nav.page
        /\ site' \in Render(site, nav.page)
        /\ page_num' = page_num + 1
        /\ pc' = "scrape"
        /\ hist' = IF nav.ok THEN [hist EXCEPT !.navs = @ + 1]
                   ELSE [hist EXCEPT !.navs = @ + 1,
                                     !.nav_failed_at = page_num]
  /\ UNCHANGED <<store, mode, max_pages, save_to_db, driver,
                 db_client, all_candidates, all_results, wi, clock, run, url, session,
                 outcome, exit_status>>
  /\ UNCHANGED login
  /\ UNCHANGED waiting

\* scrape(): if not navigate_to_next_page(): break
NavigateNext ==
  /\ pc = "navigate"
  /\ mode = "crawl"
  /\ pager' \in (IF url = "listing" THEN RenderPager(pager) ELSE {pager})
  /\ LET nav == NavigateToNextPage(ShownPager(pager'), cur)
     IN IF nav.ok
        THEN /\ cur' = nav.page
             /\ site' \in Render(site, nav.page)
             /\ page_num' = page_num + 1
             /\ pc' = "scrape"
             /\ hist' = [hist EXCEPT !.navs = @ + 1]
        ELSE /\ pc' = "save"
             /\ hist' = [hist EXCEPT !.navs = @ + 1,
                                     !.nav_failed_at = page_num]
             /\ UNCHANGED <<site, cur, page_num>>
  /\ UNCHANGED <<store, mode, max_pages, save_to_db, driver,
                 db_client, all_candidates, all_results, wi, clock, run, url, session,
                 outcome, exit_status>>
  /\ UNCHANGED login
  /\ UNCHANGED waiting

\* scrape(): if all_candidates: save_candidates(all_candidates), the writes
\* at the positions in fails raising, those in dups a DuplicateKeyError
SaveWith(fails, dups) ==
  /\ pc = "save"
  /\ IF all_candidates # <<>>
     THEN /\ store' = SaveCandidates(store, all_candidates, fails)
          /\ hist' = [hist EXCEPT !.saved = all_candidates,
                                  !.save_calls = @ + 1,
                                  !.fails = fails,
                                  !.dups = dups,
                                  !.counts = SaveCounts(store, all_candidates,
                                                        fails, dups)]
     ELSE UNCHANGED <<store, hist>>
  /\ pc' = "count"
  /\ UNCHANGED <<site, pager, mode, max_pages, save_to_db, driver, db_client,
                 cur, page_num, all_candidates, all_results, wi, clock, run,
                 url, session, outcome, exit_status>>
  /\ UNCHANGED login
  /\ UNCHANGED waiting

\* the sync with the write of any of the records raising; what a raising
\* write leaves in the store does not depend on the exception
Save == \E fails \in SUBSET (1..Len(all_candidates)) : SaveWith(fails, {})

\* the sync with no write raising
SaveAllWritten == SaveWith({}, {})

\* the sync with the write of any of the records raising, any of these a
\* DuplicateKeyError
SaveAnyError ==
  \E fails \in SUBSET (1..Len(all_candidates)) :
    /\ Cardinality(fails) <= MaxRaised
    /\ \E dups \in SUBSET fails : SaveWith(fails, dups)

\* scrape(): total_in_db = collection.count_documents({}); the try block ends
CountDocuments ==
  /\ pc = "count"
  /\ Leave("ok", driver, db_client)
  /\ UNCHANGED <<site, pager, store, mode, max_pages, save_to_db, cur,
                 page_num, all_candidates, all_results, wi, clock, run, url, session, hist>>
  /\ UNCHANGED login
  /\ UNCHANGED waiting

\* scrape_phones(): page_results = scrape_current_page_phones()
ScrapePagePhones ==
  /\ pc = "scrape"
  /\ mode = "rescan"
  /\ all_results' = all_results \o ScrapeCurrentPagePhones(ShownPage, store)
  /\ hist' = [hist EXCEPT !.visited = Append(@, cur),
                          !.attempted = @ \cup AttemptedNames(ShownPage, store)]
  /\ pc' = IF MorePages(page_num, max_pages) THEN "navigate" ELSE "write"
  /\ wi' = 1
  /\ waiting' = NoWait
  /\ UNCHANGED <<site, pager, store, mode, max_pages, save_to_db, driver,
                 db_client, cur, page_num, all_candidates, clock, run, url, session,
                 outcome, exit_status>>
  /\ UNCHANGED login

\* scrape_phones(): if not navigate_to_page(page_num + 1): break
NavigateTo ==
  /\ pc = "navigate"
  /\ mode = "rescan"
  /\ pager' \in (IF url = "listing" THEN RenderPager(pager) ELSE {pager})
  /\ LET nav == NavigateToPage(ShownPager(pager'), cur, page_num + 1)
     IN IF nav.ok
        THEN /\ cur' = nav.page
             /\ site' \in Render(site, nav.page)
             /\ page_num' = page_num + 1
             /\ pc' = "wait"
             /\ hist' = [hist EXCEPT !.navs = @ + 1]
        ELSE /\ pc' = "write"
             /\ hist' = [hist EXCEPT !.navs = @ + 1,
                                     !.nav_failed_at = page_num]
             /\ UNCHANGED <<site, cur, page_num>>
  /\ UNCHANGED <<store, mode, max_pages, save_to_db, driver,
                 db_client, all_candidates, all_results, wi, clock, run, url, session,
                 outcome, exit_status>>
  /\ UNCHANGED login
  /\ UNCHANGED waiting

\* scrape_phones(): one iteration of `for result in all_results`
WriteResult ==
  /\ pc = "write"
  /\ wi <= Len(all_results)
  /\ store' = UpdateCandidatePhone(store, save_to_db, all_results[wi])
  /\ wi' = wi + 1
  /\ UNCHANGED <<site, pager, mode, max_pages, save_to_db, pc, driver,
                 db_client, cur, page_num, all_candidates, all_results,
                 clock, run, url, session, outcome, exit_status, hist>>
  /\ UNCHANGED login
  /\ UNCHANGED waiting

\* scrape_phones(): the results summary; the try block ends
Summary ==
  /\ pc = "write"
  /\ wi > Len(all_results)
  /\ Leave("ok", driver, db_client)
  /\ UNCHANGED <<site, pager, store, mode, max_pages, save_to_db, cur,
                 page_num, all_candidates, all_results, wi, clock, run, url, session, hist>>
  /\ UNCHANGED login
  /\ UNCHANGED waiting

\* an exception of the driver or the store leaves the try block
UnhandledError ==
  /\ pc \in {"login", "scrape", "count"}
  /\ Leave("error", driver, db_client)
  /\ Unwind
  /\ UNCHANGED <<store, mode, max_pages, save_to_db, clock, run>>

\* the user interrupts the run (KeyboardInterrupt)
Interrupt ==
  /\ pc \in {"driver", "mongo", "login", "login_form", "login_password",
             "login_button", "login_recheck", "login_manual", "login_verify",
             "wait", "poll", "scrape", "navigate", "save", "count", "write"}
  /\ Leave("interrupt", driver, db_client)
  /\ Unwind
  /\ UNCHANGED <<store, mode, max_pages, save_to_db, clock, run>>

\* the runs of both scripts, login_if_needed and wait_for_candidates_to_load
\* each taken as one step
Next ==
  \/ Scrape
  \/ ScrapePhones
  \/ SetupDriver
  \/ SetupMongodb
  \/ LoginWhole
  \/ WaitWhole
  \/ ScrapePage
  \/ NavigateNext
  \/ Save
  \/ CountDocuments
  \/ ScrapePagePhones
  \/ NavigateTo
  \/ WriteResult
  \/ Summary
  \/ UnhandledError
  \/ Interrupt

Spec == Init /\ [][Next]_vars

\* the runs of both scripts from their start to the first extraction,
\* login_if_needed and wait_for_candidates_to_load taken statement by
\* statement
NextEntry ==
  \/ Scrape
  \/ ScrapePhones
  \/ SetupDriver
  \/ SetupMongodb
  \/ LoginIfNeeded
  \/ FindEmailField
  \/ FindPasswordField
  \/ SubmitCredentials
  \/ RecheckAfterSubmit
  \/ ManualCheckpoint
  \/ FinalVerification
  \/ WaitForCandidatesToLoad
  \/ PollForCandidates
  \/ UnhandledError
  \/ Interrupt

SpecEntry == Init /\ [][NextEntry]_vars

\* full crawls that run to their end with every write succeeding, the
\* login and the readiness wait each taken as one step, repeated over the
\* same rendered site
NextTwice ==
  \/ Scrape
  \/ ScrapeAgain
  \/ SetupDriver
  \/ SetupMongodb
  \/ LoginWhole
  \/ WaitWhole
  \/ ScrapePage
  \/ NavigateNext
  \/ SaveAllWritten
  \/ CountDocuments

SpecTwice == Init /\ [][NextTwice]_vars

\* full crawls that run to their end, the exceptions of the writes of the
\* sync told apart
NextSave ==
  \/ Scrape
  \/ SetupDriver
  \/ SetupMongodb
  \/ LoginWhole
  \/ WaitWhole
  \/ ScrapePage
  \/ NavigateNext
  \/ SaveAnyError
  \/ CountDocuments

SpecSave == Init /\ [][NextSave]_vars

\* the phone a rescan pass running in another process reveals
ExternalPhone == "+1-555-0142"

\* update_candidate_phone of a rescan pass that runs in another process
\* while the crawl is between its first extraction and its sync: the phone
\* of a record that holds none is set; seen is the number of records the
\* crawl had extracted by then
ExternalPhoneWrite ==
  /\ mode = "crawl"
  /\ pc \in {"scrape", "navigate", "save"}
  /\ hist.external = <<>>
  /\ \E i \in 1..Len(store) :
       /\ ~Truthy(store[i].phone)
       /\ store' = UpdateCandidatePhone(store, TRUE,
                      [name |-> store[i].name, phone |-> ExternalPhone])
       /\ hist' = [hist EXCEPT !.external =
                     <<[name |-> store[i].name, phone |-> ExternalPhone,
                        seen |-> Len(all_candidates)]>>]
  /\ UNCHANGED <<site, pager, mode, max_pages, save_to_db, pc, driver,
                 db_client, cur, page_num, all_candidates, all_results, wi,
                 clock, run, url, session, outcome, exit_status>>
  /\ UNCHANGED login
  /\ UNCHANGED waiting

\* full crawls that run to their end while another process writes a phone
NextExternal ==
  \/ Scrape
  \/ SetupDriver
  \/ SetupMongodb
  \/ LoginWhole
  \/ WaitWhole
  \/ ScrapePage
  \/ NavigateNext
  \/ ExternalPhoneWrite
  \/ SaveAllWritten
  \/ CountDocuments

SpecExternal == Init /\ [][NextExternal]_vars

(***************************************************************************)
(* Properties.                                                             *)
(***************************************************************************)
Range(f) == {f[i] : i \in DOMAIN f}

NonEmptyPhone(ph) == ph # Absent /\ ph # ""

\* some document of coll named name carries a non-empty phone
StoredNonEmptyPhone(coll, name) ==
  \E i \in 1..Len(coll) : coll[i].name = name /\ NonEmptyPhone(coll[i].phone)

\* C1: a full crawl leaves every non-empty stored phone as it was when the
\* run started, and every record the extractor emits has either phone = ""
\* (only when no record of that name holds a non-empty phone) or no phone key
\* (whenever a record of that name holds a non-empty phone).
C1_CrawlKeepsStoredPhone ==
  mode = "crawl" =>
    /\ \A i \in 1..Len(hist.store0) :
         NonEmptyPhone(hist.store0[i].phone)
           => store[i].phone = hist.store0[i].phone
    /\ \A i \in 1..Len(all_candidates) :
         LET c == all_candidates[i]
         IN /\ c.phone \in {"", Absent}
            /\ c.phone = "" => ~StoredNonEmptyPhone(hist.store0, c.name)
            /\ StoredNonEmptyPhone(hist.store0, c.name) => c.phone = Absent

\* a completed crawl saved a record of a name whose stored phone is non-empty
C1_Witness ==
  /\ mode = "crawl" /\ pc = "done" /\ outcome = "ok"
  /\ hist.save_calls = 1
  /\ \E i \in 1..Len(hist.saved) :
       StoredNonEmptyPhone(hist.store0, hist.saved[i].name)

\* C2: in a rescan run in save mode no write turns a non-empty stored phone
\* into an empty one.
C2_RescanNeverBlanksPhone ==
  [][(mode = "rescan" /\ save_to_db) =>
       \A i \in 1..Len(store) :
         NonEmptyPhone(store[i].phone) => NonEmptyPhone(store'[i].phone)]_vars

\* the documents with the extraction timestamp erased
WithoutTimestamp(coll) ==
  [i \in 1..Len(coll) |-> [coll[i] EXCEPT !.scraped_at = 0]]

C4_NamelessContainerDoesNotRaise ==
  ~(mode = "crawl" /\ outcome = "KeyError")

\* C5: every record the full crawl accumulates, passes to save_candidates or
\* creates in the store has a non-empty name.
C5_SavedRecordsHaveName ==
  mode = "crawl" =>
    /\ \A i \in 1..Len(all_candidates) : Truthy(all_candidates[i].name)
    /\ \A i \in 1..Len(hist.saved) : Truthy(hist.saved[i].name)
    /\ \A i \in 1..Len(store) : Truthy(store[i].name)

\* a batch was saved after a page with a blank name element yielded records
C5_Witness ==
  /\ mode = "crawl" /\ hist.save_calls = 1
  /\ \E k \in 1..Len(hist.visited) :
       /\ \E u \in Range(Units(site[hist.visited[k]])) :
            FindText(u.els, "p", "css-5gltw") = ""
       /\ \E u \in Range(Units(site[hist.visited[k]])) :
            FindText(u.els, "p", "css-5gltw") \in
              {hist.saved[i].name : i \in 1..Len(hist.saved)}

\* C6: the store never holds two documents with the same name.
C6_OneRecordPerName ==
  \A i, j \in 1..Len(store) : i # j => store[i].name # store[j].name

\* a batch carrying the same name twice was saved
C6_Witness ==
  /\ hist.save_calls = 1
  /\ \E i, j \in 1..Len(hist.saved) :
       i < j /\ hist.saved[i].name = hist.saved[j].name

\* the containers of a page whose stripped name text is name
CarrierIdx(page, name) ==
  {j \in 1..Len(ProfileContainers(page)) :
     FindText(ProfileContainers(page)[j].els, "p", "css-5gltw") = name}

\* C7: the records scrape_current_page returns for a page carry pairwise
\* different names, and the record of a name is the one extracted from the
\* earliest container carrying it (the name-only record when no container of
\* the page yields a name).
C7_PageDedupKeepsFirst ==
  (mode = "crawl" /\ pc \in {"navigate", "save"} /\ hist.last_page # 0) =>
    LET res == hist.last_result
        page == site[hist.last_page]
    IN /\ \A i, j \in 1..Len(res) : i # j => res[i].name # res[j].name
       /\ \A i \in 1..Len(res) :
            IF \E n \in {"ada", "bob"} : CarrierIdx(page, n) # {}
            THEN /\ CarrierIdx(page, res[i].name) # {}
                 /\ res[i] = ExtractFullCandidateInfo(
                      ProfileContainers(page)[Min(CarrierIdx(page, res[i].name))].els,
                      store, clock).cand
            ELSE res[i] = [EmptyCand EXCEPT !.name = res[i].name,
                                            !.scraped_at = clock,
                                            !.source = SourceTag]

\* a page with two different containers of one name gave one record
C7_Witness ==
  /\ mode = "crawl" /\ pc \in {"navigate", "save"} /\ hist.last_page # 0
  /\ Len(hist.last_result) = 1
  /\ \E n \in {"ada", "bob"} :
       /\ Cardinality(CarrierIdx(site[hist.last_page], n)) = 2
       /\ \E a, b \in CarrierIdx(site[hist.last_page], n) :
            ProfileContainers(site[hist.last_page])[a].els
              # ProfileContainers(site[hist.last_page])[b].els

\* C8: the k-th extraction of a full crawl runs on listing page k.
C8_KthExtractionOnPageK ==
  mode = "crawl" =>
    \A k \in 1..Len(hist.visited) : hist.visited[k] = k

\* C9: once pagination reported failure after page k of a full crawl, no
\* further page is extracted (exactly k were), the run goes on to the final
\* sync without raising, and the sync receives every accumulated record.
C9_PaginationFailureEndsCleanly ==
  (mode = "crawl" /\ hist.nav_failed_at > 0) =>
    /\ Len(hist.visited) = hist.nav_failed_at
    /\ outcome # "KeyError"
    /\ outcome = "running" => pc \in {"save", "count"}
    /\ (pc = "count" \/ outcome = "ok") =>
         /\ hist.saved = all_candidates
         /\ hist.save_calls = IF all_candidates = <<>> THEN 0 ELSE 1

\* a crawl completed after a pagination failure and saved records
C9_Witness ==
  /\ mode = "crawl" /\ pc = "done" /\ outcome = "ok"
  /\ hist.nav_failed_at > 0
  /\ max_pages > hist.nav_failed_at
  /\ Len(hist.saved) > 0

\* C10: when a run has returned, neither the browsing session nor the store
\* connection is still open.
C10_ResourcesReleased ==
  pc = "done" => (driver # "open" /\ db_client # "open")

\* an interrupted run returned with both resources closed
C10_Witness ==
  /\ pc = "done" /\ outcome = "interrupt"
  /\ driver = "closed" /\ db_client = "closed"

\* C11: when the process has ended, its exit status is 0 after a normal
\* completion and non-zero after a keyboard interrupt or an unhandled error.
C11_ExitStatusTellsOutcome ==
  pc = "done" =>
    IF outcome = "ok" THEN exit_status = 0 ELSE exit_status # 0

\* C12: in a rescan run without save_to_db (dry run) the store stays, at
\* every step of the run, exactly the store the run started with.
C12_DryRunWritesNothing ==
  (mode = "rescan" /\ ~save_to_db) => store = hist.store0

\* a dry run completed after finding a phone for a stored record without one
C12_Witness ==
  /\ mode = "rescan" /\ ~save_to_db /\ pc = "done" /\ outcome = "ok"
  /\ \E i \in 1..Len(all_results) :
       /\ NonEmptyPhone(all_results[i].phone)
       /\ FindOne(store, all_results[i].name) # 0
       /\ ~NonEmptyPhone(store[FindOne(store, all_results[i].name)].phone)

\* C13: in a rescan the store is not written while the pages are visited,
\* so the store a container is visited with is the store of the run's start;
\* no reveal is attempted on, and no result is recorded for, a name whose
\* record then holds a non-empty phone, and that record is never written.
C13_StoredPhoneContainersSkipped ==
  mode = "rescan" =>
    /\ pc \in {"wait", "scrape", "navigate"} => store = hist.store0
    /\ \A n \in hist.attempted : ~StoredNonEmptyPhone(hist.store0, n)
    /\ \A i \in 1..Len(all_results) :
         ~StoredNonEmptyPhone(hist.store0, all_results[i].name)
    /\ \A i \in 1..Len(hist.store0) :
         NonEmptyPhone(hist.store0[i].phone) => store[i] = hist.store0[i]

\* a rescan in save mode completed after visiting a page that holds a
\* container with a Contact Info control whose record has a non-empty phone
C13_Witness ==
  /\ mode = "rescan" /\ save_to_db /\ pc = "done" /\ outcome = "ok"
  /\ url = "listing"
  /\ \E k \in 1..Len(hist.visited) :
       \E i \in 1..Len(ProfileContainers(site[hist.visited[k]])) :
         LET u == ProfileContainers(site[hist.visited[k]])[i]
         IN /\ HasContactButton(u.els)
            /\ Truthy(RescanName(u.els))
            /\ StoredNonEmptyPhone(hist.store0, RescanName(u.els))

\* the records of a batch at the positions outside fails, in order
WithoutFailed(batch, fails) ==
  LET Ok(i) == i \notin fails
      idx == SelectSeq([i \in 1..Len(batch) |-> i], Ok)
  IN [k \in 1..Len(idx) |-> batch[idx[k]]]

\* C14: after save_candidates was called with a batch of which the writes
\* at some positions raised, the call has returned (the run is at or past
\* count_documents) and the store is the one that writing every other record
\* of the batch, in order, gives: no write after a failed one is left out.
C14_WriteFailureDoesNotAbortBatch ==
  (mode = "crawl" /\ hist.save_calls = 1) =>
    /\ pc \in {"count", "done"}
    /\ outcome # "KeyError"
    /\ store = SaveCandidates(hist.store0,
                              WithoutFailed(hist.saved, hist.fails), {})

\* a crawl completed whose batch had a failed write followed by the write
\* of a record that was not in the store before
C14_Witness ==
  /\ mode = "crawl" /\ pc = "done" /\ outcome = "ok" /\ hist.save_calls = 1
  /\ \E i, j \in 1..Len(hist.saved) :
       /\ i < j /\ i \in hist.fails /\ j \notin hist.fails
       /\ FindOne(hist.store0, hist.saved[j].name) = 0
       /\ FindOne(store, hist.saved[j].name) # 0

OptionalElements ==
  {[key |-> "tagline", tag |-> "p", cls |-> "css-1s1jbr2"],
   [key |-> "location", tag |-> "span", cls |-> "css-1l60zjl"],
   [key |-> "about_me", tag |-> "p", cls |-> "css-1b5s80b"]}

\* the earliest container of the page carrying the name
FirstCarrier(page, name) == ProfileContainers(page)[Min(CarrierIdx(page, name))]

\* C16: in every record scrape_current_page returns from the containers of
\* a page, each optional key (tagline, location, about_me, status,
\* avatar_url) is absent when its element is missing from the container and
\* holds the element's text (the image's src) when the element is present.
C16_MissingOptionalFieldOnlyOmitsItsKey ==
  (mode = "crawl" /\ pc \in {"navigate", "save"} /\ hist.last_page # 0) =>
    \A i \in 1..Len(hist.last_result) :
      LET r == hist.last_result[i]
          page == site[hist.last_page]
      IN CarrierIdx(page, r.name) # {} =>
           LET els == FirstCarrier(page, r.name).els
           IN /\ \A o \in OptionalElements :
                   IF FindAllIdx(els, o.tag, o.cls) = {}
                   THEN r[o.key] = Absent
                   ELSE r[o.key] = Strip(els[Min(FindAllIdx(els, o.tag, o.cls))].text)
              /\ IF FindAllIdx(els, "p", "css-f9cheu") # {}
                 THEN r.status = Strip(els[Min(FindAllIdx(els, "p", "css-f9cheu"))].text)
                 ELSE IF FindAllIdx(els, "p", "css-viedx2") # {}
                 THEN r.status = Strip(els[Min(FindAllIdx(els, "p", "css-viedx2"))].text)
                 ELSE r.status = Absent
              /\ IF FindAllIdx(els, "img", "chakra-avatar__img") = {}
                 THEN r.avatar_url = Absent
                 ELSE r.avatar_url # Absent

\* a page gave a record from a container that has a tagline and a status
\* but no location element
C16_Witness ==
  /\ mode = "crawl" /\ pc \in {"navigate", "save"} /\ hist.last_page # 0
  /\ \E i \in 1..Len(hist.last_result) :
       LET r == hist.last_result[i]
           page == site[hist.last_page]
       IN /\ CarrierIdx(page, r.name) # {}
          /\ FindAllIdx(FirstCarrier(page, r.name).els, "span", "css-1l60zjl") = {}
          /\ r.location = Absent
          /\ r.tagline # Absent
          /\ r.status # Absent
          /\ r.skills # <<>>

\* a sequence of texts with the section-header literals taken out
RECURSIVE DropHeaders(_)
DropHeaders(ts) ==
  IF ts = <<>> THEN <<>>
  ELSE IF Head(ts) \in {"Technology", "Technical Software", "Domain", "Business"}
       THEN DropHeaders(Tail(ts))
       ELSE <<Head(ts)>> \o DropHeaders(Tail(ts))

\* the stripped texts of the elements at the indices S, in document order
RECURSIVE TextsAt(_, _)
TextsAt(els, S) ==
  IF S = {} THEN <<>>
  ELSE LET m == CHOOSE x \in S : \A y \in S : x <= y
       IN <<Strip(els[m].text)>> \o TextsAt(els, S \ {m})

\* the first p.css-olbwyb below each category div that has one
CategoryParagraphs(els) ==
  {i \in 1..Len(els) :
     /\ els[i].tag = "p" /\ els[i].cls = "css-olbwyb"
     /\ els[i].pid # 0
     /\ els[els[i].pid].tag = "div" /\ els[els[i].pid].cls = "css-i310wq"
     /\ \A j \in 1..(i - 1) :
          ~(els[j].tag = "p" /\ els[j].cls = "css-olbwyb"
              /\ els[j].pid = els[i].pid)}

\* C17: in every record extracted from a container, skills is the sequence
\* of the texts of all p.css-olbwyb elements of the container without the
\* section-header literals, in document order, and categories is the same
\* for the category paragraphs.
C17_SkillsAreMatchesWithoutHeaders ==
  (mode = "crawl" /\ pc \in {"navigate", "save"} /\ hist.last_page # 0) =>
    \A i \in 1..Len(hist.last_result) :
      LET r == hist.last_result[i]
          page == site[hist.last_page]
      IN CarrierIdx(page, r.name) # {} =>
           LET els == FirstCarrier(page, r.name).els
           IN /\ r.skills =
                   DropHeaders(TextsAt(els,
                     {j \in 1..Len(els) :
                        els[j].tag = "p" /\ els[j].cls = "css-olbwyb"}))
              /\ r.categories =
                   DropHeaders(TextsAt(els, CategoryParagraphs(els)))

\* a record was extracted from a container whose skill paragraphs read
\* Python, Technology, Fundraising, ... and whose category paragraphs hold
\* a section-header literal
C17_Witness ==
  /\ mode = "crawl" /\ pc \in {"navigate", "save"} /\ hist.last_page # 0
  /\ \E i \in 1..Len(hist.last_result) :
       LET r == hist.last_result[i]
       IN /\ r.skills = <<"Python", "Fundraising", "Fintech", "Climate">>
          /\ r.categories = <<"Fintech", "Climate">>

\* the identity keys (names) present in a collection
StoredNames(coll) == {coll[i].name : i \in 1..Len(coll)}

\* C18: no step of a full crawl or of a rescan removes a record: every name
\* in the store before the step is in the store after it, and the store
\* holds at least as many records.
C18_NoRecordIsDeleted ==
  [][/\ StoredNames(store) \subseteq StoredNames(store')
     /\ Len(store') >= Len(store)]_vars

\* a crawl that wrote a record of a new name and one of a stored name has
\* completed
C18_Witness ==
  /\ mode = "crawl" /\ pc = "done" /\ outcome = "ok" /\ hist.save_calls = 1
  /\ Len(store) > Len(hist.store0)
  /\ \E i \in 1..Len(hist.saved) :
       /\ i \notin hist.fails
       /\ FindOne(hist.store0, hist.saved[i].name) # 0

\* C19: when the credentials were submitted, the settle interval is over
\* and the URL still indicates a login wall, the next step of the login (if
\* the run is not ended by an interrupt) is the manual-intervention
\* checkpoint, not the navigation to the listing page.
C19_StillWalledGoesToCheckpoint ==
  [][(pc = "login_recheck" /\ IsLoginWall(url) /\ pc' # "done")
       => pc' = "login_manual"]_vars

\* C20: a session that is still on a login wall when the manual-intervention
\* checkpoint is left ends the run with an error, and no page is extracted
\* while the browser is on a login wall.
C20_NoExtractionOnLoginWall ==
  /\ [][(pc = "login_manual" /\ IsLoginWall(url'))
          => (pc' = "done" /\ outcome' # "ok")]_vars
  /\ [](hist.visited # <<>> => ~IsLoginWall(url))

(***************************************************************************)
(* Cofounder-type classification.                                          *)
(***************************************************************************)
\* the elements of a container that make up its skills list
SkillElements(els) ==
  {j \in 1..Len(els) : els[j].tag = "p" /\ els[j].cls = "css-olbwyb"}

\* the vocabulary labels that are the text of some p, span or div of the
\* container other than an element of the skills list
LabelsOutsideSkills(els) ==
  {Strip(els[j].text) :
     j \in {k \in 1..Len(els) : els[k].tag \in {"p", "span", "div"}}
            \ SkillElements(els)} \cap {"Technology", "Business", "Domain"}

\* the vocabulary labels among the texts of the p.css-10pjdbc elements
LabelsOfTypeElements(els) ==
  {Strip(els[j].text) :
     j \in {k \in 1..Len(els) :
              els[k].tag = "p" /\ els[k].cls = "css-10pjdbc"}}
    \cap {"Technology", "Business", "Domain"}

\* C21: in every record extracted from a container in which no p.css-10pjdbc
\* element holds a vocabulary label, each label of antler_cofounder_type is
\* the text of an element outside the skills list: a label whose only
\* occurrence is a skill paragraph is not added.
C21_SkillLabelNotCountedAsType ==
  (mode = "crawl" /\ pc \in {"navigate", "save"} /\ hist.last_page # 0) =>
    \A i \in 1..Len(hist.last_result) :
      LET r == hist.last_result[i]
          page == site[hist.last_page]
      IN (CarrierIdx(page, r.name) # {}
            /\ LabelsOfTypeElements(FirstCarrier(page, r.name).els) = {}) =>
           Range(r.antler_cofounder_type)
             \subseteq LabelsOutsideSkills(FirstCarrier(page, r.name).els)

\* the position of a vocabulary label in the order of Python's sorted()
VocabRank(t) ==
  CASE t = "Business" -> 1
    [] t = "Domain" -> 2
    [] t = "Technology" -> 3
    [] OTHER -> 0

\* a list of vocabulary labels in strictly ascending order
IsSortedTypeList(l) ==
  /\ \A k \in 1..Len(l) : l[k] \in {"Technology", "Business", "Domain"}
  /\ \A k \in 1..(Len(l) - 1) : VocabRank(l[k]) < VocabRank(l[k + 1])

\* C22: a record that carries antler_cofounder_type holds a non-empty,
\* strictly ascending (hence duplicate-free) list of vocabulary labels, in
\* the records a page gave, in the accumulated records and in the store; and
\* when the p.css-10pjdbc elements of the container hold a label, the list
\* holds their labels and nothing else.
C22_TypesSortedFirstStrategyWins ==
  /\ \A i \in 1..Len(all_candidates) :
       IsSortedTypeList(all_candidates[i].antler_cofounder_type)
  /\ \A i \in 1..Len(store) : IsSortedTypeList(store[i].antler_cofounder_type)
  /\ (mode = "crawl" /\ pc \in {"navigate", "save"} /\ hist.last_page # 0) =>
       \A i \in 1..Len(hist.last_result) :
         LET r == hist.last_result[i]
             page == site[hist.last_page]
         IN /\ IsSortedTypeList(r.antler_cofounder_type)
            /\ (CarrierIdx(page, r.name) # {}
                  /\ LabelsOfTypeElements(FirstCarrier(page, r.name).els) # {})
                 => Range(r.antler_cofounder_type)
                      = LabelsOfTypeElements(FirstCarrier(page, r.name).els)

\* one page gave a record whose type list comes from the p.css-10pjdbc
\* element alone although other elements of its container read Domain, and
\* a record with three labels, found by the second strategy in the document
\* order Business, Technology, Domain, was written to the store
C22_Witness ==
  /\ mode = "crawl" /\ pc = "done" /\ outcome = "ok" /\ hist.last_page # 0
  /\ \E i \in 1..Len(all_candidates) :
       LET r == all_candidates[i]
       IN /\ r.antler_cofounder_type = <<"Technology">>
          /\ r.categories = <<"Fintech", "Climate">>
  /\ \E i \in 1..Len(store) :
       store[i].antler_cofounder_type = <<"Business", "Domain", "Technology">>

(***************************************************************************)
(* TargetedRescanPass: when the results reach the store.                   *)
(***************************************************************************)
\* the result was written: the record of its name holds its phone
Persisted(coll, result) ==
  \E i \in 1..Len(coll) :
    coll[i].name = result.name /\ coll[i].phone = result.phone

\* C23: when a saving rescan ends by an interrupt or an error, the phone
\* found for every candidate processed so far (every result with a phone
\* whose name has a record) is in the store.
C23_ResultsPersistedWhenProcessed ==
  [][(mode = "rescan" /\ save_to_db /\ pc # "done" /\ pc' = "done"
        /\ outcome' \in {"interrupt", "error"}) =>
       \A i \in 1..Len(all_results) :
         (all_results[i].phone # "" /\ FindOne(store, all_results[i].name) # 0)
           => Persisted(store', all_results[i])]_vars

\* get_candidates_without_phone(): the names of the records other than the
\* test account whose phone is missing, '' or None
GetCandidatesWithoutPhone(coll) ==
  {coll[i].name :
     i \in {j \in 1..Len(coll) :
              /\ coll[j].name # TestAccount
              /\ coll[j].phone \in {Absent, ""}}}

\* C24: the names a rescan attempts the reveal on are pending identities:
\* names of records that lacked a phone when the run started, the test
\* account never among them; a container whose name has no record is not
\* attempted.
C24_RevealOnlyOnPendingIdentities ==
  mode = "rescan" =>
    /\ hist.attempted \subseteq GetCandidatesWithoutPhone(hist.store0)
    /\ TestAccount \notin hist.attempted

(***************************************************************************)
(* Authentication: the login form.                                         *)
(***************************************************************************)
\* the first selector of the list whose element passes the test, 0 for none
FirstPassing(found) ==
  IF \A i \in 1..Len(found) : found[i] # "yes" THEN 0
  ELSE CHOOSE i \in 1..Len(found) :
         found[i] = "yes" /\ \A j \in 1..(i - 1) : found[j] # "yes"

\* C25: after the email loop or the password loop, the field that was
\* populated is the first visible match of the selector list; when no
\* selector gave a visible element nothing is populated and the run is in
\* the except branch.
C25_PopulatedFieldIsFirstVisible ==
  login.loop \in {"email", "password"} =>
    /\ login.loop \in login.populated =>
         (login.field # 0 /\ login.field = FirstPassing(login.found))
    /\ FirstPassing(login.found) = 0 =>
         (login.loop \notin login.populated /\ pc \in {"login_manual", "done"})

\* C26: after the login button loop, a click was made only on a control
\* that is displayed and enabled, and when no selector gave such a control
\* the form was submitted through the password field.
C26_ClickOnlyActionableElseSubmit ==
  login.loop = "button" =>
    /\ login.submitted = "click" =>
         (login.field # 0 /\ login.found[login.field] = "yes")
    /\ FirstPassing(login.found) = 0 => login.submitted = "submit"

\* C27: when the URL after the first navigation holds none of the tokens
\* login, signin, auth, login_if_needed goes straight to its final
\* verification: no credentials are read, no field is populated, nothing is
\* submitted, and the form steps and the manual checkpoint are entered only
\* by runs whose first URL held a token.
C27_NoWallNoLogin ==
  /\ [][(pc = "login" /\ pc' # "done"
           /\ login'.first_url \notin {"login", "signin", "auth"}) =>
          (/\ pc' = "login_verify"
           /\ ~login'.creds
           /\ login'.populated = {}
           /\ login'.submitted = "none")]_vars
  /\ [][pc = "login_verify" => pc' \in {"wait", "done"}]_vars
  /\ [](pc \in {"login_form", "login_password", "login_button",
                "login_recheck", "login_manual"} =>
          (login.first_url \in {"login", "signin", "auth"} /\ login.creds))

\* a crawl whose first navigation ended on the home page of an
\* authenticated session is at the final verification, on the listing, with
\* nothing read, populated or submitted
C27_Witness ==
  /\ mode = "crawl" /\ pc = "login_verify"
  /\ login.first_url = "home" /\ url = "listing" /\ session
  /\ ~login.creds /\ login.populated = {} /\ login.submitted = "none"

(***************************************************************************)
(* The readiness wait.                                                     *)
(***************************************************************************)
\* C28: wait_for_candidates_to_load polls at most 5 times (15 seconds in
\* steps of 3), every iteration that does not return adds 3 seconds, a check
\* that finds markers returns at once, a return without markers comes after
\* exactly 5 iterations, and the only way on from the wait is the
\* extraction (the caller is told to proceed) unless the user interrupts.
C28_WaitEndsAndProceeds ==
  /\ [](waiting.polls <= 5 /\ waiting.total_waited <= 15)
  /\ [](pc = "poll" => (waiting.total_waited < 15 /\ ~waiting.seen))
  /\ []((pc = "scrape" /\ ~waiting.seen) =>
          (waiting.polls = 5 /\ waiting.total_waited = 15))
  /\ [][(pc = "poll" /\ pc' = "poll") =>
          (waiting'.total_waited = waiting.total_waited + 3
             /\ waiting'.polls = waiting.polls + 1)]_vars
  /\ [][(pc \in {"wait", "poll"} /\ waiting'.seen) => pc' = "scrape"]_vars
  /\ [][(pc \in {"wait", "poll"} /\ pc' \notin {"poll", "scrape"}) =>
          (pc' = "done" /\ outcome' = "interrupt")]_vars

\* the wait returned on the markers the fifth poll found, after 12 seconds
\* of waiting, on a page that holds candidates
C28_Witness ==
  /\ pc = "scrape" /\ ShownPage # <<>>
  /\ waiting.seen /\ waiting.polls = 5 /\ waiting.total_waited = 12

(***************************************************************************)
(* The page loop of the full crawl.                                        *)
(***************************************************************************)
\* C29: a full crawl with page budget N extracts at most N pages, waits for
\* readiness once, before the first extraction, calls the pagination
\* controller only between extractions and fewer than N times, and after
\* the first pagination failure neither extracts nor paginates again.
C29_PageLoopWithinBudget ==
  (mode = "crawl" /\ pc \notin {"idle", "done"}) =>
    /\ Len(hist.visited) <= max_pages
    /\ hist.waits <= 1
    /\ hist.visited # <<>> => hist.waits = 1
    /\ hist.navs < max_pages
    /\ hist.navs <= Len(hist.visited)
    /\ pc = "navigate" => Len(hist.visited) < max_pages
    /\ hist.nav_failed_at # 0 =>
         /\ pc \in {"save", "count"}
         /\ Len(hist.visited) = hist.nav_failed_at
         /\ hist.navs = hist.nav_failed_at

\* a crawl with budget 3 extracted three pages after one wait and two calls
\* of the pagination controller, and is about to sync
C29_Witness ==
  /\ mode = "crawl" /\ pc = "save" /\ max_pages = 3
  /\ Len(hist.visited) = 3 /\ hist.waits = 1 /\ hist.navs = 2
  /\ hist.nav_failed_at = 0

(***************************************************************************)
(* Who writes the store in a full crawl.                                   *)
(***************************************************************************)
\* C30: in a full crawl only the sync step changes the store: while the
\* page loop runs the store is as the run found it, save_candidates is
\* called at most once, after the loop has ended, and every step that
\* changes the store is that call.
C30_OnlyFinalSyncWrites ==
  /\ [](mode = "crawl" =>
          /\ hist.save_calls <= 1
          /\ hist.save_calls = 1 => pc \in {"count", "done"}
          /\ pc \in {"wait", "scrape", "navigate", "save"} =>
               store = hist.store0)
  /\ [][(mode = "crawl" /\ store' # store) =>
          (pc = "save" /\ pc' = "count" /\ hist'.save_calls = 1)]_vars

\* a crawl extracted two pages, reading a stored phone on the way, and its
\* one call of save_candidates changed the store
C30_Witness ==
  /\ mode = "crawl" /\ pc = "count"
  /\ hist.save_calls = 1 /\ Len(hist.visited) >= 2
  /\ store # hist.store0
  /\ \E i \in 1..Len(hist.saved) : hist.saved[i].phone = Absent

(***************************************************************************)
(* The name-only fallback.                                                 *)
(***************************************************************************)
\* the keys a record holds
KeysOf(r) == {f \in DOMAIN r : HasKey(r, f)}

\* C31: when the page holds at least one div.css-iuxpug container, every
\* record scrape_current_page returns was extracted from a container (the
\* name-only pass did not run); when it holds none, every record holds the
\* keys name, scraped_at and source and no other.
C31_FallbackOnlyWithoutContainers ==
  (mode = "crawl" /\ pc \in {"navigate", "save"} /\ hist.last_page # 0) =>
    LET page == site[hist.last_page]
    IN /\ ProfileContainers(page) # <<>> =>
            \A i \in 1..Len(hist.last_result) :
              CarrierIdx(page, hist.last_result[i].name) # {}
       /\ ProfileContainers(page) = <<>> =>
            \A i \in 1..Len(hist.last_result) :
              KeysOf(hist.last_result[i]) = {"name", "scraped_at", "source"}

\* the store as it was immediately before write i of the last sync
StoreBeforeWrite(i) ==
  SaveCandidates(hist.store0, SubSeq(hist.saved, 1, i - 1), hist.fails)

\* the positions of the last sync whose write did not raise
WrittenPositions == (1..Len(hist.saved)) \ hist.fails

\* C32: save_candidates counts every successful write exactly once: as created
\* when its name was not in the store immediately before that write, as
\* updated otherwise; a write that raises a duplicate-key error is counted as
\* updated, and the writes after it are still made.
C32_CountsCreatedAndUpdated ==
  (mode = "crawl" /\ pc = "count" /\ hist.save_calls = 1) =>
    /\ hist.counts.inserted =
         Cardinality({i \in WrittenPositions :
           FindOne(StoreBeforeWrite(i), hist.saved[i].name) = 0})
    /\ hist.counts.updated =
         Cardinality({i \in WrittenPositions :
           FindOne(StoreBeforeWrite(i), hist.saved[i].name) # 0})
         + Cardinality(hist.dups)
    /\ \A i \in WrittenPositions : FindOne(store, hist.saved[i].name) # 0

\* a sync that created a record, updated one, met a duplicate-key error and
\* wrote a record after it
C32_Witness ==
  /\ mode = "crawl"
  /\ pc = "count"
  /\ hist.save_calls = 1
  /\ hist.counts.inserted > 0
  /\ hist.counts.updated > Cardinality(hist.dups)
  /\ \E d \in hist.dups : \E i \in WrittenPositions : i > d

\* the positions of the last sync that made the last successful write to
\* their name
LastWrites ==
  {i \in WrittenPositions :
     \A j \in WrittenPositions : j > i => hist.saved[j].name # hist.saved[i].name}

\* C33: after the sync of a crawl, a list field (skills, categories, cofounder
\* type) that was extracted for a record the store already held equals exactly
\* the extracted list: the previous list is replaced, not extended.
C33_ListFieldsReplaced ==
  (mode = "crawl" /\ pc = "count" /\ hist.save_calls = 1) =>
    \A i \in LastWrites :
      FindOne(hist.store0, hist.saved[i].name) # 0 =>
        \A f \in ListFields :
          HasKey(hist.saved[i], f) =>
            store[FindOne(store, hist.saved[i].name)][f] = hist.saved[i][f]

\* a sync that wrote a new skills list over a different stored one
C33_Witness ==
  /\ mode = "crawl"
  /\ pc = "count"
  /\ hist.save_calls = 1
  /\ \E i \in LastWrites :
       /\ FindOne(hist.store0, hist.saved[i].name) # 0
       /\ HasKey(hist.saved[i], "skills")
       /\ HasKey(hist.store0[FindOne(hist.store0, hist.saved[i].name)], "skills")
       /\ hist.store0[FindOne(hist.store0, hist.saved[i].name)].skills
            # hist.saved[i].skills

\* C34: a run whose driver setup or store setup fails ends there with an
\* error: no page was requested, nothing was extracted and the store holds
\* what it held when the run started; a browser that was already started is
\* quit.
C34_SetupFailureAborts ==
  [][(pc \in {"driver", "mongo"} /\ pc' = "done" /\ outcome' = "error") =>
       (store' = store /\ store = hist.store0 /\ url = "blank" /\ url' = "blank"
        /\ ~session /\ hist.visited = <<>> /\ hist.attempted = {}
        /\ hist.save_calls = 0 /\ all_candidates = <<>> /\ all_results = <<>>
        /\ all_candidates' = <<>> /\ all_results' = <<>> /\ hist' = hist
        /\ driver' # "open" /\ (driver = "open" => driver' = "closed")
        /\ exit_status' = 1)]_vars

\* a crawl whose store setup failed after the browser was started
C34_Witness ==
  /\ mode = "crawl"
  /\ pc = "done"
  /\ outcome = "error"
  /\ driver = "closed"
  /\ db_client = "none"

\* C35: a non-empty phone that another process wrote to a record after the
\* crawl had extracted that identity with an empty phone is still in the
\* store after the sync of the crawl.
C35_ExternalPhoneKept ==
  (mode = "crawl" /\ pc = "count" /\ hist.save_calls = 1) =>
    \A e \in 1..Len(hist.external) :
      (\E i \in 1..hist.external[e].seen :
         /\ hist.saved[i].name = hist.external[e].name
         /\ hist.saved[i].phone = "")
        => store[FindOne(store, hist.external[e].name)].phone
             = hist.external[e].phone

\* the positions of the last sync whose write went to the record named name
WritesTo(name) == {i \in WrittenPositions : hist.saved[i].name = name}

\* the fields of a stored record that no write of the last sync to it carried
FieldsNotWritten(doc) ==
  {f \in DOMAIN doc :
     \A i \in WritesTo(doc.name) : ~(f \in CandFields /\ HasKey(hist.saved[i], f))}

\* C36: the sync of a crawl changes, in a record the store already held, only
\* the fields present in a record written to it; the classifier's
\* founder_type, a stored phone the extractor left out and every field not
\* found this time keep their value.
C36_SyncChangesOnlyExtractedFields ==
  (mode = "crawl" /\ pc = "count" /\ hist.save_calls = 1) =>
    \A k \in 1..Len(hist.store0) :
      \A f \in FieldsNotWritten(hist.store0[k]) :
        store[k][f] = hist.store0[k][f]

\* a sync that wrote to a stored record and left its founder_type, its
\* non-empty phone and a stored field not found this time as they were
C36_Witness ==
  /\ mode = "crawl"
  /\ pc = "count"
  /\ hist.save_calls = 1
  /\ \E k \in 1..Len(hist.store0) :
       /\ WritesTo(hist.store0[k].name) # {}
       /\ store[k] # hist.store0[k]
       /\ store[k].founder_type = "technical"
       /\ NonEmptyPhone(hist.store0[k].phone)
       /\ "phone" \in FieldsNotWritten(hist.store0[k])
       /\ \E f \in FieldsNotWritten(hist.store0[k]) \cap CandFields :
            f # "phone" /\ HasKey(hist.store0[k], f)

\* C37: a rescan in save mode creates no record and changes no field other
\* than phone: at every step the store holds the records of the run's start,
\* each equal to what it was in every field but phone.
C37_RescanWritesOnlyPhones ==
  (mode = "rescan" /\ save_to_db) =>
    /\ Len(store) = Len(hist.store0)
    /\ \A i \in 1..Len(hist.store0) :
         \A f \in DOMAIN hist.store0[i] \ {"phone"} :
           store[i][f] = hist.store0[i][f]

\* a rescan in save mode completed after it wrote a phone and processed a
\* container whose name has no record
C37_Witness ==
  /\ mode = "rescan" /\ save_to_db /\ pc = "done" /\ outcome = "ok"
  /\ store # hist.store0
  /\ \E i \in 1..Len(all_results) : FindOne(store, all_results[i].name) = 0

\* C38: a crawl that ends with an error before save_candidates was called
\* leaves the store exactly as it was when the run started.
C38_AbortBeforeSyncLeavesStore ==
  [][(mode = "crawl" /\ pc # "done" /\ pc' = "done"
      /\ outcome' \in {"error", "KeyError"} /\ hist.save_calls = 0) =>
       (store' = hist.store0 /\ hist'.store0 = hist.store0)]_vars

\* a first crawl that extracted a page and was aborted by the extraction of
\* a later one
C38_Witness ==
  /\ mode = "crawl"
  /\ pc = "done"
  /\ outcome = "KeyError"
  /\ run = 1
  /\ clock >= 3
  /\ store = hist.store0

\* C39: the test of the URL after the submission takes for a login page
\* every URL the first test of login_if_needed takes for a login wall: a
\* crawl still on such a URL after the settle interval records the login as
\* failed.
C39_RecheckMatchesWallTest ==
  [][(pc = "login_recheck" /\ mode = "crawl" /\ IsLoginWall(url)
      /\ pc' = "login_verify") => login'.recheck = "failed"]_vars

====
